---- MODULE Spec2Model ----
(***************************************************************************)
(* Model of the Novile editor widget (src/src/editor.cpp).                 *)
(*                                                                         *)
(* Editor is a facade over EditorPrivate, which owns a QWebView showing    *)
(* the Ace editor.  Every public operation builds a JavaScript source      *)
(* string and hands it to EditorPrivate::executeJavaScript.                *)
(*                                                                         *)
(* A QString is modelled as a sequence of chunks.  The text given to       *)
(* setText is a sequence of one-character chunks; the string literals of   *)
(* editor.cpp are cut into the JavaScript tokens they spell, so that the   *)
(* concatenations of the source are concatenations of sequences here and   *)
(* the page side can parse what the native side really issued.             *)
(***************************************************************************)
EXTENDS Integers, Sequences, FiniteSets, TLC

\* Longest text handed to setText or typed into the page.
MaxLen == 2
\* Largest magnitude of a line number handed to gotoLine.
MaxLine == 2
\* Number of unrelated events (loadProgress and the like) the nested event
\* loop may process while it waits.
MaxOther == 2

LF == "\n"
QUOTE == "'"
BACKSLASH == "\\"

\* Characters a text is made of: a plain letter, the two characters that are
\* special inside a JavaScript string literal, and the line terminator.
Chars == {"a", QUOTE, BACKSLASH, LF}

\* Every text of at most MaxLen characters.
Texts == UNION {[1 .. n -> Chars] : n \in 0 .. MaxLen}
LineNumbers == (0 - MaxLine) .. MaxLine

----------------------------------------------------------------------------
(* QString::number *)

Digits == <<"0", "1", "2", "3", "4", "5", "6", "7", "8", "9">>

RECURSIVE NatString(_)
NatString(n) ==
    IF n < 10 THEN Digits[n + 1]
    ELSE NatString(n \div 10) \o Digits[(n % 10) + 1]

QStringNumber(n) == IF n < 0 THEN "-" \o NatString(0 - n) ELSE NatString(n)

\* The integers the model converts to and from text.
IntRange == (0 - MaxLine - MaxLen - 1) .. (MaxLine + MaxLen + 1)

----------------------------------------------------------------------------
(* QVariant and its conversions *)

Invalid == [t |-> "invalid"]
IntVariant(n) == [t |-> "int", v |-> n]
StringVariant(s) == [t |-> "string", v |-> s]
BoolVariant(b) == [t |-> "bool", v |-> b]

\* The characters of a QString, chunk after chunk.
RECURSIVE Join(_)
Join(s) == IF s = << >> THEN "" ELSE Head(s) \o Join(Tail(s))

\* toInt reporting a failed conversion as -1 instead of 0.
toInt_Minus(q) ==
    CASE q.t = "int" -> q.v
      [] q.t = "bool" -> IF q.v THEN 1 ELSE 0
      [] q.t = "string" ->
           IF \E n \in IntRange : QStringNumber(n) = Join(q.v)
           THEN CHOOSE n \in IntRange : QStringNumber(n) = Join(q.v)
           ELSE 0
      [] OTHER -> 0 - 1

\* QVariant::toInt as used by Editor::lines: 0 for an invalid variant and
\* for a string that is not a number.
toInt(q) ==
    CASE q.t = "int" -> q.v
      [] q.t = "bool" -> IF q.v THEN 1 ELSE 0
      [] q.t = "string" ->
           IF \E n \in IntRange : QStringNumber(n) = Join(q.v)
           THEN CHOOSE n \in IntRange : QStringNumber(n) = Join(q.v)
           ELSE 0
      [] OTHER -> 0
\* QVariant::toString as used by Editor::text: "" for an invalid variant.
toString(q) ==
    CASE q.t = "string" -> q.v
      [] q.t = "int" -> <<QStringNumber(q.v)>>
      [] q.t = "bool" -> IF q.v THEN <<"true">> ELSE <<"false">>
      [] OTHER -> << >>
\* QVariant::toBool as used by Editor::isReadOnly: false for an invalid
\* variant, for 0 and for the strings "", "0" and "false".
toBool(q) ==
    CASE q.t = "bool" -> q.v
      [] q.t = "int" -> q.v # 0
      [] q.t = "string" -> Join(q.v) \notin {"", "0", "false"}
      [] OTHER -> FALSE

----------------------------------------------------------------------------
(* The enumerations of editor.h as editor.cpp resolves them *)

HighlightModes == {"ModeCpp", "ModeCss", "ModeHtml", "ModeJavaScript",
                   "ModePascal", "ModePhp", "ModePython", "ModeRuby", "ModeXml"}
Themes == {"ThemeAmbiance", "ThemeMonokai", "ThemeTextMate"}

\* ModeName with the C++ mode under the identifier "cpp".
ModeName_Cpp(mode) ==
    CASE mode = "ModeCpp" -> "cpp"
      [] mode = "ModeCss" -> "css"
      [] mode = "ModeHtml" -> "html"
      [] mode = "ModeJavaScript" -> "javascript"
      [] mode = "ModePascal" -> "pascal"
      [] mode = "ModePhp" -> "php"
      [] mode = "ModePython" -> "python"
      [] mode = "ModeRuby" -> "ruby"
      [] mode = "ModeXml" -> "xml"

\* Editor::setHighlightMode(HighlightMode): the identifier of each case.
ModeName(mode) ==
    CASE mode = "ModeCpp" -> "c_cpp"
      [] mode = "ModeCss" -> "css"
      [] mode = "ModeHtml" -> "html"
      [] mode = "ModeJavaScript" -> "javascript"
      [] mode = "ModePascal" -> "pascal"
      [] mode = "ModePhp" -> "php"
      [] mode = "ModePython" -> "python"
      [] mode = "ModeRuby" -> "ruby"
      [] mode = "ModeXml" -> "xml"

\* Editor::setHighlightMode(HighlightMode): the resource of each case.
ModeUrl(mode) ==
    CASE mode = "ModeCpp" -> "qrc:/ace/mode-c_cpp.js"
      [] mode = "ModeCss" -> "qrc:/ace/mode-css.js"
      [] mode = "ModeHtml" -> "qrc:/ace/mode-html.js"
      [] mode = "ModeJavaScript" -> "qrc:/ace/mode-javascript.js"
      [] mode = "ModePascal" -> "qrc:/ace/mode-pascal.js"
      [] mode = "ModePhp" -> "qrc:/ace/mode-php.js"
      [] mode = "ModePython" -> "qrc:/ace/mode-python.js"
      [] mode = "ModeRuby" -> "qrc:/ace/mode-ruby.js"
      [] mode = "ModeXml" -> "qrc:/ace/mode-xml.js"

\* Editor::setTheme(Theme): the identifier of each case.
ThemeName(theme) ==
    CASE theme = "ThemeAmbiance" -> "ambiance"
      [] theme = "ThemeMonokai" -> "monokai"
      [] theme = "ThemeTextMate" -> "textmate"

\* ThemeUrl with the resource of ThemeAmbiance pasted into ThemeMonokai.
ThemeUrl_Pasted(theme) ==
    CASE theme = "ThemeAmbiance" -> "qrc:/ace/theme-ambiance.js"
      [] theme = "ThemeMonokai" -> "qrc:/ace/theme-ambiance.js"
      [] theme = "ThemeTextMate" -> "qrc:/ace/theme-textmate.js"

\* Editor::setTheme(Theme): the resource of each case.
ThemeUrl(theme) ==
    CASE theme = "ThemeAmbiance" -> "qrc:/ace/theme-ambiance.js"
      [] theme = "ThemeMonokai" -> "qrc:/ace/theme-monokai.js"
      [] theme = "ThemeTextMate" -> "qrc:/ace/theme-textmate.js"

\* QUrl::toString of a URL built from one of the literals above, which are
\* already in the form QUrl prints (scheme, no authority, plain path).
QUrlToString(url) == url

----------------------------------------------------------------------------
(* The JavaScript sources editor.cpp builds, token by token *)

LinesCode == <<"property('lines')">>
\* TextCode reading a property of its own instead of the document.
TextCode_Cached == <<"property('cache')">>
TextCode == <<"property('text')">>
ReadOnlyCode == <<"property('readonly')">>
GotoLineCode(lineNumber) ==
    <<"editor.gotoLine(">> \o <<QStringNumber(lineNumber)>> \o <<")">>
SetValueCode(newText) ==
    <<"editor.setValue(", QUOTE>> \o newText \o <<QUOTE, ")">>
ClearSelectionCode == <<"editor.selection.clearSelection()">>
SetReadOnlyCode(readOnly) ==
    IF readOnly
    THEN <<"property('readonly', true)", ";">>
         \o <<"editor.setReadOnly(true)", ";">>
    ELSE <<"property('readonly', false)">>
         \o <<"editor.setReadOnly(false)", ";">>
HighlightModeCode(name, url) ==
    << >>
    \o <<"$.getScript(", QUOTE>> \o <<QUrlToString(url)>> \o <<QUOTE, ")", ";">>
    \o <<"editor.getSession().setMode(", QUOTE, "ace/mode/">> \o <<name>> \o <<QUOTE, ")", ";">>
ThemeCode(name, url) ==
    << >>
    \o <<"$.getScript(", QUOTE>> \o <<QUrlToString(url)>> \o <<QUOTE, ")", ";">>
    \o <<"editor.setTheme(", QUOTE, "ace/theme/">> \o <<name>> \o <<QUOTE, ")", ";">>
\* The contents of :/html/wrapper.js, which is not part of the sources at
\* hand: one token standing for the whole script.
WrapperCode == <<"wrapper.js">>

----------------------------------------------------------------------------
(* The page: ace.html with the Ace editor, as the browser engine runs it *)

\* State of the page.  loaded: ace.html is up and `editor`, `property` and
\* `$` exist; window: the names of the native objects put into the window
\* object; wired: the
\* listeners of wrapper.js are installed; readonly: the page-side
\* "readonly" property; edReadOnly: Ace's own read-only flag.  The mode, the
\* theme and the cursor of Ace are not read back by any operation and are
\* left out.
BlankPage ==
    [loaded |-> FALSE, window |-> {}, wired |-> FALSE, text |-> << >>,
     readonly |-> FALSE, edReadOnly |-> FALSE]

\* Number of rows of the document.
RECURSIVE LineCount(_)
LineCount(text) ==
    IF text = << >> THEN 1
    ELSE LineCount(Tail(text)) + (IF Head(text) = LF THEN 1 ELSE 0)

\* Scans a single-quoted string literal whose opening quote is just before
\* position i.  A backslash takes the next character literally (or, before
\* a line terminator, continues the line); a bare line terminator or the
\* end of input inside the literal is a syntax error.
RECURSIVE ScanString(_, _, _)
ScanString(toks, i, acc) ==
    IF i > Len(toks) THEN [ok |-> FALSE]
    ELSE IF toks[i] = QUOTE THEN [ok |-> TRUE, val |-> acc, next |-> i + 1]
    ELSE IF toks[i] = LF THEN [ok |-> FALSE]
    ELSE IF toks[i] = BACKSLASH
         THEN IF i + 1 > Len(toks) THEN [ok |-> FALSE]
              ELSE IF toks[i + 1] = LF THEN ScanString(toks, i + 2, acc)
              ELSE ScanString(toks, i + 2, Append(acc, toks[i + 1]))
    ELSE ScanString(toks, i + 1, Append(acc, toks[i]))

RECURSIVE SkipSpace(_, _)
SkipSpace(toks, i) ==
    IF i <= Len(toks) /\ toks[i] = LF THEN SkipSpace(toks, i + 1) ELSE i

\* Expressions that are one token: complete calls without free arguments.
AtomCalls ==
    {"property('lines')", "property('text')", "property('readonly')",
     "property('readonly', true)", "property('readonly', false)",
     "editor.setReadOnly(true)", "editor.setReadOnly(false)",
     "editor.selection.clearSelection()", "wrapper.js"}
\* Calls that take one string literal.
StringCalls ==
    {"editor.setValue(", "$.getScript(", "editor.getSession().setMode(",
     "editor.setTheme("}
NumberTokens == {QStringNumber(n) : n \in IntRange}

\* Parses one expression statement starting at position i.
ParseExpression(toks, i) ==
    IF toks[i] \in AtomCalls
    THEN [ok |-> TRUE, stmt |-> [f |-> toks[i], arg |-> << >>], next |-> i + 1]
    ELSE IF toks[i] \in StringCalls
    THEN LET a == SkipSpace(toks, i + 1)
         IN IF a > Len(toks) \/ toks[a] # QUOTE THEN [ok |-> FALSE]
            ELSE LET lit == ScanString(toks, a + 1, << >>)
                 IN IF ~lit.ok THEN [ok |-> FALSE]
                    ELSE LET c == SkipSpace(toks, lit.next)
                         IN IF c <= Len(toks) /\ toks[c] = ")"
                            THEN [ok |-> TRUE,
                                  stmt |-> [f |-> toks[i], arg |-> lit.val],
                                  next |-> c + 1]
                            ELSE [ok |-> FALSE]
    ELSE IF toks[i] = "editor.gotoLine("
    THEN IF i + 2 <= Len(toks) /\ toks[i + 1] \in NumberTokens /\ toks[i + 2] = ")"
         THEN [ok |-> TRUE,
               stmt |-> [f |-> toks[i], arg |-> <<toks[i + 1]>>],
               next |-> i + 3]
         ELSE [ok |-> FALSE]
    ELSE [ok |-> FALSE]

\* Parses a program: expression statements, each ended by a semicolon or by
\* the end of the input.  Two expressions with nothing between them are a
\* syntax error, and then nothing of the program runs.
RECURSIVE ParseProgram(_, _, _)
ParseProgram(toks, i, acc) ==
    IF i > Len(toks) THEN [ok |-> TRUE, stmts |-> acc]
    ELSE IF toks[i] = ";" THEN ParseProgram(toks, i + 1, acc)
    ELSE LET e == ParseExpression(toks, i)
         IN IF ~e.ok THEN [ok |-> FALSE]
            ELSE IF e.next > Len(toks)
                 THEN [ok |-> TRUE, stmts |-> Append(acc, e.stmt)]
            ELSE IF toks[e.next] = ";"
                 THEN ParseProgram(toks, e.next + 1, Append(acc, e.stmt))
            ELSE [ok |-> FALSE]

\* Calls into the native object the listeners of wrapper.js make when the
\* document goes from text `old` to text `new`.
ChangeCallbacks(pg, old, new) ==
    IF ~(pg.wired /\ "Novile" \in pg.window) \/ old = new THEN << >>
    ELSE <<[cb |-> "onTextChanged", n |-> 0]>>
         \o (IF LineCount(old) # LineCount(new)
             THEN <<[cb |-> "onLinesChanged", n |-> LineCount(new)]>>
             ELSE << >>)

\* Runs one statement on a loaded page.
ExecStatement(pg, st) ==
    CASE st.f = "property('lines')" ->
           [page |-> pg, value |-> IntVariant(LineCount(pg.text)), cbs |-> << >>]
      [] st.f = "property('text')" ->
           [page |-> pg, value |-> StringVariant(pg.text), cbs |-> << >>]
      [] st.f = "property('readonly')" ->
           [page |-> pg, value |-> BoolVariant(pg.readonly), cbs |-> << >>]
      [] st.f = "property('readonly', true)" ->
           [page |-> [pg EXCEPT !.readonly = TRUE], value |-> Invalid, cbs |-> << >>]
      [] st.f = "property('readonly', false)" ->
           [page |-> [pg EXCEPT !.readonly = FALSE], value |-> Invalid, cbs |-> << >>]
      [] st.f = "editor.setReadOnly(true)" ->
           [page |-> [pg EXCEPT !.edReadOnly = TRUE], value |-> Invalid, cbs |-> << >>]
      [] st.f = "editor.setReadOnly(false)" ->
           [page |-> [pg EXCEPT !.edReadOnly = FALSE], value |-> Invalid, cbs |-> << >>]
      [] st.f = "editor.setValue(" ->
           [page |-> [pg EXCEPT !.text = st.arg], value |-> Invalid,
            cbs |-> ChangeCallbacks(pg, pg.text, st.arg)]
      [] st.f = "wrapper.js" ->
           [page |-> [pg EXCEPT !.wired = TRUE], value |-> Invalid, cbs |-> << >>]
      [] OTHER ->
           [page |-> pg, value |-> Invalid, cbs |-> << >>]

RECURSIVE ExecProgram(_, _, _)
ExecProgram(pg, stmts, cbs) ==
    IF stmts = << >> THEN [page |-> pg, value |-> Invalid, cbs |-> cbs]
    ELSE LET r == ExecStatement(pg, Head(stmts))
         IN IF Len(stmts) = 1
            THEN [page |-> r.page, value |-> r.value, cbs |-> cbs \o r.cbs]
            ELSE ExecProgram(r.page, Tail(stmts), cbs \o r.cbs)

\* QWebFrame::evaluateJavaScript: the value of the last statement, or an
\* invalid QVariant when the program does not parse or throws.  On a page
\* that did not load, `editor`, `property` and `$` are not defined and the
\* first statement throws a ReferenceError.
evaluateJavaScript(pg, code) ==
    LET prog == ParseProgram(code, 1, << >>)
    IN IF ~prog.ok \/ ~pg.loaded
       THEN [page |-> pg, value |-> Invalid, cbs |-> << >>]
       ELSE ExecProgram(pg, prog.stmts, << >>)

----------------------------------------------------------------------------
(* The native side *)

VARIABLES
    pc,          \* position of the Editor constructor: "new", "waiting",
                 \* "loaded", "injected", "ready"
    page,        \* the page shown by aceView
    started,     \* number of times startAceWidget has been entered
    otherEvents, \* events other than loadFinished the nested loop has processed
                 \* so far (0 once the loop has returned)
    trace,       \* the bootstrap steps taken, in order
    lastOp,      \* the operation or event of the last step
    issued,      \* the sources handed to executeJavaScript in the last step
    raw,         \* the QVariant the last evaluation of the last step returned
    ret,         \* what the operation of the last step returned to its caller
    cbIn,        \* the callbacks the page made into EditorPrivate in the last step
    sigOut,      \* the signals Editor emitted in the last step
    arg          \* the argument of the operation of the last step, if any

vars == <<pc, page, started, otherEvents, trace, lastOp, issued, raw, ret,
          cbIn, sigOut, arg>>

Void == [t |-> "void"]
Unset == [set |-> FALSE]
Set(x) == [set |-> TRUE, v |-> x]

\* signal Editor::linesChanged(int)
Editor_linesChanged(n) == <<[sig |-> "linesChanged", n |-> n]>>
\* signal Editor::textChanged()
Editor_textChanged == <<[sig |-> "textChanged", n |-> 0]>>
\* signal EditorPrivate::linesChanged(int), connected to Editor::linesChanged
EditorPrivate_linesChanged(n) == Editor_linesChanged(n)
\* signal EditorPrivate::textChanged(), connected to Editor::textChanged
EditorPrivate_textChanged == Editor_textChanged
\* onLinesChanged without the emit.
onLinesChanged_Silent(lines) == << >>
\* slot EditorPrivate::onLinesChanged(int)
onLinesChanged(lines) == EditorPrivate_linesChanged(lines)
\* slot EditorPrivate::onTextChanged()
onTextChanged == EditorPrivate_textChanged

\* The slots run for the callbacks the page makes, in the order it makes them.
RECURSIVE Deliver(_)
Deliver(cbs) ==
    IF cbs = << >> THEN << >>
    ELSE (IF Head(cbs).cb = "onLinesChanged"
          THEN onLinesChanged(Head(cbs).n)
          ELSE onTextChanged)
         \o Deliver(Tail(cbs))

\* EditorPrivate::executeJavaScript
executeJavaScript(pg, code) == evaluateJavaScript(pg, code)

\* The calls of executeJavaScript one operation makes, one after the other.
RECURSIVE RunAll(_, _, _)
RunAll(pg, codes, cbs) ==
    IF codes = << >> THEN [page |-> pg, value |-> Invalid, cbs |-> cbs]
    ELSE LET r == executeJavaScript(pg, Head(codes))
         IN IF Len(codes) = 1
            THEN [page |-> r.page, value |-> r.value, cbs |-> cbs \o r.cbs]
            ELSE RunAll(r.page, Tail(codes), cbs \o r.cbs)

\* The part of a step every public operation shares.
Operation(op, codes) ==
    /\ pc = "ready"
    /\ \E r \in {RunAll(page, codes, << >>)} :
       /\ lastOp' = op
       /\ issued' = codes
       /\ page' = r.page
       /\ raw' = r.value
       /\ cbIn' = r.cbs
       /\ sigOut' = Deliver(r.cbs)
       /\ UNCHANGED <<pc, started, otherEvents, trace>>

Init ==
    /\ pc = "new"
    /\ page = BlankPage
    /\ started = 0
    /\ otherEvents = 0
    /\ trace = << >>
    /\ lastOp = "none"
    /\ issued = << >>
    /\ raw = Invalid
    /\ ret = Void
    /\ cbIn = << >>
    /\ sigOut = << >>
    /\ arg = Unset

Quiet == /\ issued' = << >>
         /\ raw' = Invalid
         /\ ret' = Void
         /\ cbIn' = << >>
         /\ sigOut' = << >>
         /\ arg' = Unset

\* startAceWidget starting the load without entering the event loop.
StartAceWidget_NoWait ==
    /\ pc = "new"
    /\ pc' = "loaded"
    /\ started' = started + 1
    /\ trace' = Append(trace, "load")
    /\ lastOp' = "load"
    /\ Quiet
    /\ UNCHANGED <<page, otherEvents>>

\* Editor::Editor calls startAceWidget, which connects loadFinished to the
\* quit slot of a local event loop, starts the load and enters the loop.
StartAceWidget ==
    /\ pc = "new"
    /\ pc' = "waiting"
    /\ started' = started + 1
    /\ trace' = Append(trace, "load")
    /\ lastOp' = "load"
    /\ Quiet
    /\ UNCHANGED <<page, otherEvents>>

\* An event other than loadFinished ending the loop.
LoopOtherEvent_Quits ==
    /\ pc = "waiting"
    /\ otherEvents < MaxOther
    /\ otherEvents' = otherEvents + 1
    /\ pc' = "loaded"
    /\ lastOp' = "otherEvent"
    /\ Quiet
    /\ UNCHANGED <<page, started, trace>>

\* The nested loop processes an event that is not loadFinished.
LoopOtherEvent ==
    /\ pc = "waiting"
    /\ otherEvents < MaxOther
    /\ otherEvents' = otherEvents + 1
    /\ lastOp' = "otherEvent"
    /\ Quiet
    /\ UNCHANGED <<pc, page, started, trace>>

\* aceView emits loadFinished(ok); the connected QEventLoop::quit ends exec().
LoadFinished(ok) ==
    /\ pc = "waiting"
    /\ pc' = "loaded"
    /\ page' = [page EXCEPT !.loaded = ok]
    /\ trace' = Append(trace, "loadFinished")
    /\ lastOp' = "loadFinished"
    /\ otherEvents' = 0
    /\ Quiet
    /\ UNCHANGED started

\* The injection left out.
Inject_Skipped ==
    /\ pc = "loaded"
    /\ pc' = "injected"
    /\ trace' = Append(trace, "inject")
    /\ lastOp' = "inject"
    /\ Quiet
    /\ UNCHANGED <<page, started, otherEvents>>

\* frame->addToJavaScriptWindowObject("Novile", this)
Inject ==
    /\ pc = "loaded"
    /\ pc' = "injected"
    /\ page' = [page EXCEPT !.window = @ \cup {"Novile"}]
    /\ trace' = Append(trace, "inject")
    /\ lastOp' = "inject"
    /\ Quiet
    /\ UNCHANGED <<started, otherEvents>>

\* QFile listeners(":/html/wrapper.js"); evaluated only if it opens.
LoadWrapper(opened) ==
    /\ pc = "injected"
    /\ pc' = "ready"
    /\ lastOp' = "wrapper"
    /\ IF opened
       THEN LET r == executeJavaScript(page, WrapperCode)
            IN /\ issued' = <<WrapperCode>>
               /\ page' = r.page
               /\ raw' = r.value
               /\ cbIn' = r.cbs
               /\ sigOut' = Deliver(r.cbs)
               /\ trace' = Append(trace, "evaluate")
       ELSE /\ issued' = << >>
            /\ raw' = Invalid
            /\ cbIn' = << >>
            /\ sigOut' = << >>
            /\ UNCHANGED <<page, trace>>
    /\ ret' = Void
    /\ arg' = Unset
    /\ UNCHANGED <<started, otherEvents>>

\* int Editor::lines() const
lines ==
    /\ Operation("lines", <<LinesCode>>)
    /\ ret' = [t |-> "int", v |-> toInt(raw')]
    /\ arg' = Unset

\* void Editor::gotoLine(int) const
gotoLine(lineNumber) ==
    /\ Operation("gotoLine", <<GotoLineCode(lineNumber)>>)
    /\ ret' = Void
    /\ arg' = Set(lineNumber)

\* QString Editor::text() const
text ==
    /\ Operation("text", <<TextCode>>)
    /\ ret' = [t |-> "QString", v |-> toString(raw')]
    /\ arg' = Unset

\* void Editor::setText(const QString &)
setText(newText) ==
    /\ Operation("setText", <<SetValueCode(newText), ClearSelectionCode>>)
    /\ ret' = Void
    /\ arg' = Set(newText)

\* bool Editor::isReadOnly() const
isReadOnly ==
    /\ Operation("isReadOnly", <<ReadOnlyCode>>)
    /\ ret' = [t |-> "bool", v |-> toBool(raw')]
    /\ arg' = Unset

\* void Editor::setReadOnly(bool)
setReadOnly(readOnly) ==
    /\ Operation("setReadOnly", <<SetReadOnlyCode(readOnly)>>)
    /\ ret' = Void
    /\ arg' = Set(readOnly)

\* void Editor::setHighlightMode(const QString &, const QUrl &)
setHighlightModeByName(name, url) ==
    /\ Operation("setHighlightMode", <<HighlightModeCode(name, url)>>)
    /\ ret' = Void

\* void Editor::setHighlightMode(HighlightMode)
setHighlightMode(mode) ==
    /\ setHighlightModeByName(ModeName(mode), ModeUrl(mode))
    /\ arg' = Set(mode)

\* void Editor::setTheme(const QString &, const QUrl &)
setThemeByName(name, url) ==
    /\ Operation("setTheme", <<ThemeCode(name, url)>>)
    /\ ret' = Void

\* void Editor::setTheme(Theme)
setTheme(theme) ==
    /\ setThemeByName(ThemeName(theme), ThemeUrl(theme))
    /\ arg' = Set(theme)

\* The user types a character into the page or deletes the last one; Ace
\* refuses both while its read-only flag is set.  The listeners of
\* wrapper.js then call back into EditorPrivate.
PageEdit(new) ==
    /\ pc = "ready"
    /\ page.loaded
    /\ ~page.edReadOnly
    /\ new # page.text
    /\ page' = [page EXCEPT !.text = new]
    /\ lastOp' = "pageEdit"
    /\ issued' = << >>
    /\ raw' = Invalid
    /\ ret' = Void
    /\ cbIn' = ChangeCallbacks(page, page.text, new)
    /\ sigOut' = Deliver(cbIn')
    /\ arg' = Unset
    /\ UNCHANGED <<pc, started, otherEvents, trace>>

PageType ==
    \E c \in Chars : Len(page.text) < MaxLen /\ PageEdit(Append(page.text, c))

PageBackspace ==
    Len(page.text) > 0 /\ PageEdit(SubSeq(page.text, 1, Len(page.text) - 1))

Next ==
    \/ StartAceWidget
    \/ LoopOtherEvent
    \/ \E ok \in BOOLEAN : LoadFinished(ok)
    \/ Inject
    \/ \E opened \in BOOLEAN : LoadWrapper(opened)
    \/ lines
    \/ \E n \in LineNumbers : gotoLine(n)
    \/ text
    \/ \E s \in Texts : setText(s)
    \/ isReadOnly
    \/ \E b \in BOOLEAN : setReadOnly(b)
    \/ \E m \in HighlightModes : setHighlightMode(m)
    \/ \E th \in Themes : setTheme(th)
    \/ PageType
    \/ PageBackspace

Spec == Init /\ [][Next]_vars

\* The engine eventually reports the end of the load, and the constructor,
\* once the loop has returned, runs to its end.
LiveSpec ==
    /\ Spec
    /\ WF_vars(StartAceWidget)
    /\ WF_vars(\E ok \in BOOLEAN : LoadFinished(ok))
    /\ WF_vars(Inject)
    /\ WF_vars(\E opened \in BOOLEAN : LoadWrapper(opened))

----------------------------------------------------------------------------
(* Properties *)

BootOrder == <<"load", "loadFinished", "inject", "evaluate">>

\* No quote and no backslash in s.
Plain(s) == \A i \in 1 .. Len(s) : s[i] \notin {QUOTE, BACKSLASH}

\* The statements the page makes of a source, << >> if it does not parse.
Statements(code) ==
    LET prog == ParseProgram(code, 1, << >>)
    IN IF prog.ok THEN prog.stmts ELSE << >>

\* C1: on a page that loaded, isReadOnly() right after setReadOnly(b)
\* returns b, for true and for false, and the page-side "readonly" property
\* and Ace's read-only flag agree in every state.
C1_ReadOnlyFollowsSet ==
    /\ [][(lastOp = "setReadOnly" /\ lastOp' = "isReadOnly" /\ page.loaded)
            => ret'.v = arg.v]_vars
    /\ [](page.readonly = page.edReadOnly)

\* C2: on a page that loaded, text() right after setText(s) returns s, for
\* every s without quote and backslash.
C2_RoundTrip ==
    [][(lastOp = "setText" /\ Plain(arg.v) /\ lastOp' = "text" /\ page.loaded)
         => ret'.v = arg.v]_vars

\* C3: startAceWidget runs once, it starts one load, and whenever a step
\* hands a source to executeJavaScript the loadFinished of that load has
\* been signalled before.
C3_NoEvaluationBeforeLoad ==
    /\ started <= 1
    /\ (pc # "new" => started = 1)
    /\ Len(SelectSeq(trace, LAMBDA e : e = "load")) <= 1
    /\ Len(SelectSeq(trace, LAMBDA e : e = "loadFinished")) <= 1
    /\ (issued # << >> =>
          /\ Len(trace) >= 2
          /\ trace[1] = "load"
          /\ trace[2] = "loadFinished")
    /\ (pc = "ready" => Len(trace) >= 2 /\ trace[2] = "loadFinished")

C3_Witness == lastOp = "wrapper" /\ issued = <<WrapperCode>> /\ page.wired

\* C4: text(), lines() and isReadOnly() each make one evaluation, leave the
\* page alone and, on a page that loaded, return what the page held when
\* they were called, whatever operation or page-side edit came before.
C4_QueriesReadThePage ==
    [][/\ lastOp' = "text" =>
            /\ Len(issued') = 1
            /\ page' = page
            /\ (page.loaded => ret' = [t |-> "QString", v |-> page.text])
       /\ lastOp' = "lines" =>
            /\ Len(issued') = 1
            /\ page' = page
            /\ (page.loaded => ret' = [t |-> "int", v |-> LineCount(page.text)])
       /\ lastOp' = "isReadOnly" =>
            /\ Len(issued') = 1
            /\ page' = page
            /\ (page.loaded => ret' = [t |-> "bool", v |-> page.readonly])]_vars

C4_Witness ==
    lastOp = "text" /\ page.loaded /\ ret = [t |-> "QString", v |-> <<"a", LF>>]

\* C5: setHighlightMode(mode) makes one evaluation; the page reads it as a
\* $.getScript of qrc:/ace/mode-<id>.js followed by a setMode of
\* ace/mode/<id> with the same <id>; ModeCpp has the id c_cpp, and no two
\* modes share an id.
C5_HighlightMode ==
    /\ \A m1, m2 \in HighlightModes : m1 # m2 => ModeName(m1) # ModeName(m2)
    /\ lastOp = "setHighlightMode" =>
         /\ Len(issued) = 1
         /\ LET st == Statements(issued[1])
            IN /\ Len(st) = 2
               /\ st[1].f = "$.getScript("
               /\ st[2].f = "editor.getSession().setMode("
               /\ Len(st[2].arg) = 2
               /\ st[2].arg[1] = "ace/mode/"
               /\ Join(st[1].arg) = "qrc:/ace/mode-" \o st[2].arg[2] \o ".js"
               /\ (arg.v = "ModeCpp" => st[2].arg[2] = "c_cpp")

C5_Witness == lastOp = "setHighlightMode" /\ arg.v = "ModeCpp" /\ page.loaded

\* C6: setTheme(theme) makes one evaluation; the page reads it as a
\* $.getScript of qrc:/ace/theme-<id>.js followed by a setTheme of
\* ace/theme/<id> with the same <id>; ThemeMonokai has the id monokai, and
\* no two themes share an id.
C6_Theme ==
    /\ \A t1, t2 \in Themes : t1 # t2 => ThemeName(t1) # ThemeName(t2)
    /\ lastOp = "setTheme" =>
         /\ Len(issued) = 1
         /\ LET st == Statements(issued[1])
            IN /\ Len(st) = 2
               /\ st[1].f = "$.getScript("
               /\ st[2].f = "editor.setTheme("
               /\ Len(st[2].arg) = 2
               /\ st[2].arg[1] = "ace/theme/"
               /\ Join(st[1].arg) = "qrc:/ace/theme-" \o st[2].arg[2] \o ".js"
               /\ (arg.v = "ThemeMonokai" => st[2].arg[2] = "monokai")

C6_Witness == lastOp = "setTheme" /\ arg.v = "ThemeMonokai" /\ page.loaded

\* C7: the signals Editor emits in a step are the callbacks the page made in
\* that step, one for one and in the same order: linesChanged(n) for
\* onLinesChanged(n), textChanged() for onTextChanged().
C7_Relay ==
    /\ Len(sigOut) = Len(cbIn)
    /\ \A i \in 1 .. Len(cbIn) :
         IF cbIn[i].cb = "onLinesChanged"
         THEN sigOut[i] = [sig |-> "linesChanged", n |-> cbIn[i].n]
         ELSE sigOut[i] = [sig |-> "textChanged", n |-> 0]

C7_Witness ==
    /\ Len(cbIn) = 2
    /\ cbIn[1].cb = "onTextChanged"
    /\ cbIn[2] = [cb |-> "onLinesChanged", n |-> 2]

PublicOps ==
    {"lines", "gotoLine", "text", "setText", "isReadOnly", "setReadOnly",
     "setHighlightMode", "setTheme"}

\* C8: when the evaluation of a query fails, text() returns "", lines()
\* returns 0 and isReadOnly() returns false; every operation, failed or not,
\* leaves the Editor in the ready state, and in the ready state the queries
\* can be called again, whether or not the page loaded and the helper script
\* opened.
C8_FailuresAreDefaults ==
    /\ raw.t = "invalid" =>
         /\ (lastOp = "text" => ret = [t |-> "QString", v |-> << >>])
         /\ (lastOp = "lines" => ret = [t |-> "int", v |-> 0])
         /\ (lastOp = "isReadOnly" => ret = [t |-> "bool", v |-> FALSE])
    /\ (lastOp \in PublicOps \cup {"wrapper", "pageEdit"} => pc = "ready")
    /\ pc = "ready" =>
         /\ ENABLED lines
         /\ ENABLED text
         /\ ENABLED isReadOnly

C8_Witness ==
    lastOp = "lines" /\ ~page.loaded /\ raw.t = "invalid" /\ ret.v = 0

\* C9: the wait of startAceWidget is left only by the step that delivers
\* loadFinished, for a load that succeeded as for one that failed, and once
\* the wait has begun the constructor completes.
C9_WaitEndsOnLoadFinished ==
    /\ [][(pc = "waiting" /\ pc' # "waiting") =>
            /\ lastOp' = "loadFinished"
            /\ trace' = Append(trace, "loadFinished")]_vars
    /\ [][(pc = "waiting" /\ lastOp' = "otherEvent") => pc' = "waiting"]_vars
    /\ (pc = "waiting") ~> (pc = "ready")

C9_Witness == pc = "loaded" /\ lastOp = "loadFinished" /\ ~page.loaded

\* C10: the bootstrap steps happen in the order load, loadFinished, inject,
\* evaluate; the helper script is evaluated only with Novile in the window
\* object; and when the helper script does not open, Novile is injected all
\* the same and the bootstrap evaluates nothing.
C10_BootstrapOrder ==
    /\ Len(trace) <= Len(BootOrder)
    /\ trace = SubSeq(BootOrder, 1, Len(trace))
    /\ (pc = "ready" => "Novile" \in page.window)
    /\ (lastOp = "wrapper" /\ issued # << >> =>
          /\ issued = <<WrapperCode>>
          /\ "Novile" \in page.window
          /\ trace = BootOrder)
    /\ (lastOp = "wrapper" /\ issued = << >> =>
          /\ "Novile" \in page.window
          /\ trace = SubSeq(BootOrder, 1, 3))

C10_Witness ==
    lastOp = "wrapper" /\ issued = << >> /\ "Novile" \in page.window /\ page.loaded

====
